---- MODULE Spec2Model ----
(***************************************************************************)
(* Model of the feed-polling / ingestion / notification core of ClarityAI. *)
(*   server/scheduler.ts      checkFeeds (lines 16-158), startScheduler    *)
(*   server/routes.ts         POST /api/refresh, POST /api/channels,       *)
(*                            POST /api/settings, backfillVideos           *)
(*   server/notifications.ts  sendNotification (lines 44-85)               *)
(*   server/transcriber.ts    getTranscript                                *)
(*   supabase schema          tables channels, videos, user_settings       *)
(* Every `await` of a handler is one step of the model, so that two        *)
(* invocations interleave exactly where the event loop lets them.          *)
(***************************************************************************)
EXTENDS Integers, Sequences, FiniteSets, Bags, TLC

VARIABLES
  envToken,          \* process.env.TELEGRAM_BOT_TOKEN ("" when unset)
  channels,          \* ids of the rows of table channels
  last_checked,      \* channels.last_checked: stamp of the writing cycle, 0 = NULL
  videos,            \* rows of table videos
  user_settings,     \* table user_settings: account -> row, or NoRow
  feedLen,           \* the outside world: number of entries each feed has published
  bf,                \* backfillVideos call of each channel: its position, its rows,
                     \* and for the record: the entries its fetch saw (len), the
                     \* number of poll cycles begun when it ended (at), its success (ok)
  cycles,            \* number of checkFeeds invocations started so far
  pc,                \* position of each checkFeeds invocation
  cyc,               \* stamp of the invocation (its number)
  chans,             \* local `channels`: the list selected at line 19
  settingsByUserId,  \* local `settingsByUserId` (lines 27-31)
  ci,                \* index of the for-loop of line 33
  feedItems,         \* local `feedItems` of the current channel
  idx,               \* index of the for-loop of line 104
  loc,               \* locals of the current new item: transcript, notified, result
  sent,              \* bag of the HTTP calls made to the messaging endpoint
  hook,              \* the last handling of POST /api/webhook/telegram
  req,               \* the request POST /api/webhook/telegram is handling, or NoRow
  qa                 \* the reply handlers that run step by step: position and locals

vars == <<envToken, channels, last_checked, videos, user_settings,
          feedLen, bf, cycles, pc, cyc, chans, settingsByUserId, ci,
          feedItems, idx, loc, sent, hook, req, qa>>

pollVars == <<pc, cyc, chans, settingsByUserId, ci, feedItems, idx, loc>>

-----------------------------------------------------------------------------
(* Bounds *)

MaxCycles == 2      \* checkFeeds invocations in one behaviour
MaxFeed == 1        \* entries one feed publishes
MaxGrow == 4        \* entries the feed that is followed as it grows publishes
MaxBurst == 6       \* entries a feed has when its channel is registered
MaxItems == 2       \* entries a feed publishes while cycles over two channels run

-----------------------------------------------------------------------------
(* The fixed world: accounts, channels, feeds *)

Users == {"u1", "u2"}
Chans == {1, 2, 3, 4}
Procs == {"cron", "manual"}  \* the cron tick and POST /api/refresh
\* two deliveries of the webhook that are handled at the same time
Handlers == {"h1", "h2"}

NoRow == [none |-> TRUE]

\* SQL NULL in a text column whose empty string is a different value
Null == "NULL"

\* channels.rss_url: three source kinds; channels 2 and 4 are two accounts
\* following the same YouTube channel
RssUrl(c) ==
  CASE c = 1 -> "https://example.org/feed.xml"
    [] c = 2 -> "https://www.youtube.com/channel/UC1"
    [] c = 3 -> "https://www.reddit.com/r/test.json"
    [] c = 4 -> "https://www.youtube.com/channel/UC1"

\* channels.user_id
Owner(c) == IF c \in {3, 4} THEN "u2" ELSE "u1"

\* rss_url.includes('reddit.com'), rss_url.includes('youtube.com')
IncludesReddit(u) == u \in {"https://www.reddit.com/r/test.json"}
IncludesYouTube(u) == u \in {"https://www.youtube.com/channel/UC1"}

Kind(c) ==
  IF IncludesReddit(RssUrl(c)) THEN "reddit"
  ELSE IF IncludesYouTube(RssUrl(c)) THEN "youtube" ELSE "rss"

\* Names of the entries of a feed, oldest first.
ItemNames == <<"a", "b", "c", "d", "e", "f", "g", "h">>

\* A string is modelled as the sequence of its ':'-separated segments.
\* An Atom feed of YouTube names its entries yt:video:<id>; other feeds use
\* a plain id.  Odd entries of the generic feed use the first convention.
RawId(c, k) ==
  IF Kind(c) = "rss" /\ k % 2 = 1
  THEN <<"yt", "video", ItemNames[k]>>
  ELSE <<ItemNames[k]>>

\* Titles and snippets are strings of characters.
RawTitle(c, k) ==
  CASE k = 1 -> <<"m", "y", " ", "#", "s", "h", "o", "r", "t", "s">>
    [] k = 2 -> <<"#", "S", "h", "o", "r", "t", "s">>
    [] k = 3 -> <<"#", "S", "H", "O", "R", "T", "S">>
    [] k = 4 -> <<"s", "h", "o", "r", "t", "s">>
    [] OTHER -> <<"t", "a", "l", "k">>

\* <<>> is the empty string, which an absent snippet reads as
RawSnippet(c, k) ==
  CASE k = 1 -> <<"f", "u", "n">>
    [] k = 2 -> <<"A", " ", "S", "h", "o", "r", "t", "l", "y">>
    [] k = 3 -> <<"s", "h", "o", "w">>
    [] k = 4 -> <<>>
    [] OTHER -> <<"S", "H", "O", "R", "T">>

\* the remote feed a channel row points at: one per distinct rss_url
FeedOf(c) == CHOOSE d \in Chans : RssUrl(d) = RssUrl(c) /\ \A x \in Chans : RssUrl(x) = RssUrl(c) => d <= x

FeedLen(c) == feedLen[FeedOf(c)]

RawLink(c, k) == <<Kind(c), FeedOf(c), k>>

\* The entries a fetch of the feed returns now, newest first.
Feed(c) ==
  [i \in 1..FeedLen(c) |->
     [id |-> RawId(c, FeedLen(c) + 1 - i),
      link |-> RawLink(c, FeedLen(c) + 1 - i),
      title |-> RawTitle(c, FeedLen(c) + 1 - i),
      contentSnippet |-> RawSnippet(c, FeedLen(c) + 1 - i),
      k |-> FeedLen(c) + 1 - i]]

BackfillCap == 5
PollCap == 15

Take(s, n) == IF Len(s) <= n THEN s ELSE SubSeq(s, 1, n)

\* item.id.split(':').pop()
SplitPop(id) == <<id[Len(id)]>>

RECURSIVE SeqOfSet(_)
SeqOfSet(S) ==
  IF S = {} THEN <<>>
  ELSE LET m == CHOOSE x \in S : \A y \in S : x <= y
       IN <<m>> \o SeqOfSet(S \ {m})

-----------------------------------------------------------------------------
(* The persistence layer *)

Key(r) == <<r.channel_id, r.video_id>>

Matching(c, vid) == {r \in videos : r.channel_id = c /\ r.video_id = vid}

\* .single(): the row when exactly one matches, null otherwise
Single(S) == IF Cardinality(S) = 1 THEN CHOOSE r \in S : TRUE ELSE NoRow

\* a table without the constraint
InsertAllowedAlways(vs, c, vid) == TRUE

\* UNIQUE(channel_id, video_id): the insert is rejected on a conflict
InsertAllowed(vs, c, vid) ==
  ~ \E v \in vs : v.channel_id = c /\ v.video_id = vid

\* the primary key the store gives a new row
RowId(vs, c, vid) ==
  <<c, vid, Cardinality({v \in vs : v.channel_id = c /\ v.video_id = vid}) + 1>>

-----------------------------------------------------------------------------
(* sendNotification (notifications.ts 44-85) *)

HttpOutcomes == {"ok", "nonok", "throw"}

\* a version that does not look at res.ok
sendNotificationOptimistic(botToken, chatId, http) ==
  IF botToken # "" /\ chatId # ""
  THEN CASE http = "throw" -> [success |-> FALSE, error |-> "message", called |-> TRUE]
         [] OTHER -> [success |-> TRUE, error |-> "", called |-> TRUE]
  ELSE [success |-> FALSE, error |-> "No Telegram settings configured",
        called |-> FALSE]

sendNotification(botToken, chatId, http) ==
  IF botToken # "" /\ chatId # ""
  THEN CASE http = "ok" -> [success |-> TRUE, error |-> "", called |-> TRUE]
         [] http = "nonok" -> [success |-> FALSE, error |-> "body", called |-> TRUE]
         [] http = "throw" -> [success |-> FALSE, error |-> "message", called |-> TRUE]
  ELSE [success |-> FALSE, error |-> "No Telegram settings configured",
        called |-> FALSE]

\* a || b on strings
OrElse(a, b) == IF a # "" THEN a ELSE b

\* the bag of HTTP calls, one more when the call was made
Record(res, src, c, vid, chatId) ==
  IF res.called
  THEN sent (+) SetToBag({[src |-> src, channel |-> c, video |-> vid,
                           chat |-> chatId]})
  ELSE sent

-----------------------------------------------------------------------------
(* getTranscript (transcriber.ts 3-11): the text, or the empty string <<>> *)
(* on any failure                                                         *)

\* a fetch whose failure is passed on to the caller instead of being caught
getTranscriptThrows(link, fetched) == IF fetched THEN <<"captions", link>> ELSE <<"error">>

getTranscript(link, fetched) == IF fetched THEN <<"captions", link>> ELSE <<>>

-----------------------------------------------------------------------------
Init ==
  /\ envToken \in {"", "envtok"}
  /\ channels = {}
  /\ last_checked = [c \in Chans |-> 0]
  /\ videos = {}
  /\ user_settings = [u \in Users |-> NoRow]
  /\ feedLen = [c \in Chans |-> 0]
  /\ bf = [c \in Chans |-> [pc |-> "none", videos |-> <<>>, len |-> 0, at |-> 0, ok |-> FALSE]]
  /\ cycles = 0
  /\ pc = [p \in Procs |-> "idle"]
  /\ cyc = [p \in Procs |-> 0]
  /\ chans = [p \in Procs |-> <<>>]
  /\ settingsByUserId = [p \in Procs |-> [u \in Users |-> NoRow]]
  /\ ci = [p \in Procs |-> 1]
  /\ feedItems = [p \in Procs |-> <<>>]
  /\ idx = [p \in Procs |-> 1]
  /\ loc = [p \in Procs |-> NoRow]
  /\ sent = EmptyBag
  /\ hook = [status |-> "idle", out |-> <<>>, llm |-> FALSE]
  /\ req = NoRow
  /\ qa = [h \in Handlers |-> [pc |-> "idle", video |-> NoRow, transcript |-> <<>>,
                              wrote |-> FALSE]]

-----------------------------------------------------------------------------
(* The outside world *)

\* a feed that has fewer than n entries publishes one more
PublishUpTo(c, n) ==
  /\ c = FeedOf(c)
  /\ feedLen[c] < n
  /\ feedLen' = [feedLen EXCEPT ![c] = @ + 1]
  /\ UNCHANGED <<envToken, channels, last_checked, videos,
                 user_settings, bf, cycles, pollVars, sent, hook, req, qa>>

Publish(c) == PublishUpTo(c, MaxFeed)

-----------------------------------------------------------------------------
(* POST /api/settings (routes.ts 234-255) *)

\* the upsert writes the two columns of the request and leaves the third
SaveSettings(u, token, chat) ==
  /\ user_settings' = [user_settings EXCEPT ![u] =
        [telegram_bot_token |-> token, telegram_chat_id |-> chat,
         gemini_api_key |-> IF @ = NoRow THEN Null ELSE @.gemini_api_key]]
  /\ UNCHANGED <<envToken, channels, last_checked, videos, feedLen,
                 bf, cycles, pollVars, sent, hook, req, qa>>

-----------------------------------------------------------------------------
(* checkFeeds (scheduler.ts 16-158) *)

\* row?.field, with null and undefined read as ""
Field(row, f) == IF row = NoRow THEN "" ELSE row[f]

\* videos.filter(v => !seenIds.has(v.videoId)) (lines 81-86)
RECURSIVE DedupById(_, _)
DedupById(s, seen) ==
  IF s = <<>> THEN <<>>
  ELSE IF Head(s).id \in seen THEN DedupById(Tail(s), seen)
       ELSE <<Head(s)>> \o DedupById(Tail(s), seen \cup {Head(s).id})

\* the three adapters of lines 37-100, on a fetch that succeeded
PollItems(c) ==
  CASE Kind(c) = "reddit" -> Feed(c)
    [] Kind(c) = "youtube" -> Take(DedupById(Feed(c), {}), PollCap)
    [] OTHER -> Feed(c)

\* item.link.includes('reddit.com') (line 122)
LinkIncludesReddit(link) == link[1] = "reddit"

\* a loop without the lookup
IsNewAlways(existing) == TRUE

\* a lookup that also selects the flag and lets an unnotified row through
IsNewOrUnnotified(existing) == existing = NoRow \/ ~existing.notified

\* String.prototype.includes on strings of characters
Includes(str, sub) ==
  \E i \in 0..(Len(str) - Len(sub)) : SubSeq(str, i + 1, i + Len(sub)) = sub

\* String.prototype.toLowerCase
LowerChar(ch) ==
  CASE ch = "A" -> "a" [] ch = "S" -> "s" [] ch = "H" -> "h" [] ch = "O" -> "o"
    [] ch = "R" -> "r" [] ch = "T" -> "t" [] OTHER -> ch
ToLowerCase(str) == [i \in 1..Len(str) |-> LowerChar(str[i])]

\* (x || ''): the string itself, an absent one being the empty string already
OrEmpty(x) == x

\* a classification that lowercases the title as well
videoTypeAnyCase(item) ==
  IF \/ Includes(ToLowerCase(OrEmpty(item.title)), <<"#", "s", "h", "o", "r", "t", "s">>)
     \/ Includes(ToLowerCase(OrEmpty(item.contentSnippet)), <<"s", "h", "o", "r", "t">>)
  THEN "short" ELSE "longform"

\* lines 112-115
videoType(item) ==
  IF \/ Includes(OrEmpty(item.title), <<"#", "s", "h", "o", "r", "t", "s">>)
     \/ Includes(ToLowerCase(OrEmpty(item.contentSnippet)), <<"s", "h", "o", "r", "t">>)
  THEN "short" ELSE "longform"

\* `if (!existing)` (line 109)
IsNew(existing) == existing = NoRow

\* the condition with || in place of &&
ShouldNotifyEither(botToken, chatId) == botToken # "" \/ chatId # ""

\* `if (botToken && chatId)` (line 133)
ShouldNotify(botToken, chatId) == botToken # "" /\ chatId # ""

CurChan(p) == chans[p][ci[p]]
CurItem(p) == feedItems[p][idx[p]]

\* lines 130-131
BotToken(p) ==
  OrElse(envToken, Field(settingsByUserId[p][Owner(CurChan(p))], "telegram_bot_token"))
\* a chat id taken from the first settings row that has one
ChatIdOfAnyone(p) ==
  IF Field(settingsByUserId[p]["u1"], "telegram_chat_id") # ""
  THEN Field(settingsByUserId[p]["u1"], "telegram_chat_id")
  ELSE Field(settingsByUserId[p]["u2"], "telegram_chat_id")

\* line 131
ChatId(p) == Field(settingsByUserId[p][Owner(CurChan(p))], "telegram_chat_id")

\* line 19: select the channels; a select error ends the invocation (21-24)
PollStart(p, ok) ==
  /\ pc[p] \in {"idle", "done"}
  /\ cycles < MaxCycles
  /\ cycles' = cycles + 1
  /\ cyc' = [cyc EXCEPT ![p] = cycles + 1]
  /\ ci' = [ci EXCEPT ![p] = 1]
  /\ idx' = [idx EXCEPT ![p] = 1]
  /\ feedItems' = [feedItems EXCEPT ![p] = <<>>]
  /\ loc' = [loc EXCEPT ![p] = NoRow]
  /\ settingsByUserId' = [settingsByUserId EXCEPT ![p] = [u \in Users |-> NoRow]]
  /\ IF ok
     THEN /\ chans' = [chans EXCEPT ![p] = SeqOfSet(channels)]
          /\ pc' = [pc EXCEPT ![p] = "settings"]
     ELSE /\ chans' = [chans EXCEPT ![p] = <<>>]
          /\ pc' = [pc EXCEPT ![p] = "done"]
  /\ UNCHANGED <<envToken, channels, last_checked, videos, user_settings,
                 feedLen, bf, sent, hook, req, qa>>

\* lines 27-31: select all user_settings
PollSettings(p) ==
  /\ pc[p] = "settings"
  /\ settingsByUserId' = [settingsByUserId EXCEPT ![p] = user_settings]
  /\ pc' = [pc EXCEPT ![p] = IF chans[p] = <<>> THEN "done" ELSE "fetch"]
  /\ UNCHANGED <<envToken, channels, last_checked, videos, user_settings,
                 feedLen, bf, cycles, cyc, chans, ci, feedItems, idx, loc, sent, hook, req, qa>>

\* the position after the body of the loop of line 33 ends for a channel
AfterChannel(p) ==
  /\ ci' = [ci EXCEPT ![p] = @ + 1]
  /\ feedItems' = [feedItems EXCEPT ![p] = <<>>]
  /\ pc' = [pc EXCEPT ![p] = IF ci[p] + 1 <= Len(chans[p]) THEN "fetch" ELSE "done"]

\* a loop that starts over after each item
AfterItemRestart(p) ==
  /\ idx' = [idx EXCEPT ![p] = 1]
  /\ pc' = [pc EXCEPT ![p] = "lookup"]
  /\ UNCHANGED <<ci, feedItems>>

\* the position after the body of the loop of line 104 ends for an item
AfterItem(p) ==
  IF idx[p] + 1 <= Len(feedItems[p])
  THEN /\ idx' = [idx EXCEPT ![p] = @ + 1]
       /\ pc' = [pc EXCEPT ![p] = "lookup"]
       /\ UNCHANGED <<ci, feedItems>>
  ELSE /\ idx' = [idx EXCEPT ![p] = @ + 1]
       /\ AfterChannel(p)

\* a try/catch around the loop instead of inside it: the failure ends the loop
CatchFetchAbort(p) ==
  /\ ci' = ci
  /\ feedItems' = [feedItems EXCEPT ![p] = <<>>]
  /\ pc' = [pc EXCEPT ![p] = "done"]

\* `catch (err)` of line 154, reached from the fetch of a channel
CatchFetch(p) == AfterChannel(p)

\* the update made only when the feed returned items
TouchedIfItems(p) ==
  IF feedItems[p] = <<>> THEN last_checked
  ELSE [last_checked EXCEPT ![CurChan(p)] = cyc[p]]

\* line 102: update({last_checked: new Date()}).eq('id', channel.id)
Touched(p) == [last_checked EXCEPT ![CurChan(p)] = cyc[p]]

\* lines 35-100: fetch and normalise the feed of the current channel.  The
\* YouTube scraper has a try/catch of its own (62-96) that leaves the list empty.
PollFetch(p, ok) ==
  /\ pc[p] = "fetch"
  /\ idx' = [idx EXCEPT ![p] = 1]
  /\ IF ok
     THEN /\ feedItems' = [feedItems EXCEPT ![p] = PollItems(CurChan(p))]
          /\ pc' = [pc EXCEPT ![p] = "touch"]
          /\ ci' = ci
     ELSE IF Kind(CurChan(p)) = "youtube"
     THEN /\ feedItems' = [feedItems EXCEPT ![p] = <<>>]
          /\ pc' = [pc EXCEPT ![p] = "touch"]
          /\ ci' = ci
     ELSE CatchFetch(p)
  /\ UNCHANGED <<envToken, channels, last_checked, videos, user_settings,
                 feedLen, bf, cycles, cyc, chans, settingsByUserId, loc, sent, hook, req, qa>>

\* line 102: update last_checked, then enter the loop over the items
PollTouch(p) ==
  /\ pc[p] = "touch"
  /\ last_checked' = Touched(p)
  /\ idx' = idx
  /\ IF feedItems[p] = <<>>
     THEN AfterChannel(p)
     ELSE /\ pc' = [pc EXCEPT ![p] = "lookup"]
          /\ UNCHANGED <<ci, feedItems>>
  /\ UNCHANGED <<envToken, channels, videos, user_settings, feedLen, bf,
                 cycles, cyc, chans, settingsByUserId, loc, sent, hook, req, qa>>

\* lines 105-128: look the item up; a new one gets its content
PollLookup(p, fetched) ==
  /\ pc[p] = "lookup"
  /\ LET existing == Single(Matching(CurChan(p), CurItem(p).id))
     IN IF IsNew(existing)
        THEN /\ loc' = [loc EXCEPT ![p] =
                  [transcript |->
                     IF LinkIncludesReddit(CurItem(p).link)
                     THEN <<"selftext", CurItem(p).link>>
                     ELSE getTranscript(CurItem(p).link, fetched),
                   notified |-> FALSE,
                   res |-> "none"]]
             /\ pc' = [pc EXCEPT ![p] = "notify"]
             /\ UNCHANGED <<ci, idx, feedItems>>
        ELSE /\ AfterItem(p)
             /\ loc' = loc
  /\ UNCHANGED <<envToken, channels, last_checked, videos, user_settings,
                 feedLen, bf, cycles, cyc, chans, settingsByUserId, sent, hook, req, qa>>

\* lines 130-137: dispatch when a token and a chat id are at hand; the
\* value sendNotification returns is dropped (loc.res keeps it for the record)
PollNotify(p, http) ==
  /\ pc[p] = "notify"
  /\ IF ShouldNotify(BotToken(p), ChatId(p))
     THEN LET res == sendNotification(BotToken(p), ChatId(p), http)
          IN /\ sent' = Record(res, "poll", CurChan(p), CurItem(p).id, ChatId(p))
             /\ loc' = [loc EXCEPT ![p].notified = TRUE,
                                   ![p].res = IF res.success THEN "ok"
                                              ELSE IF res.called THEN "fail"
                                              ELSE "nocall"]
     ELSE UNCHANGED <<sent, loc>>
  /\ pc' = [pc EXCEPT ![p] = "insert"]
  /\ UNCHANGED <<envToken, channels, last_checked, videos, user_settings,
                 feedLen, bf, cycles, cyc, chans, settingsByUserId, ci,
                 feedItems, idx, hook, req, qa>>

\* lines 139-151: insert the row; an insert error is logged only
PollInsert(p, dbok) ==
  /\ pc[p] = "insert"
  /\ IF dbok /\ InsertAllowed(videos, CurChan(p), CurItem(p).id)
     THEN videos' = videos \cup
            {[id |-> RowId(videos, CurChan(p), CurItem(p).id),
              channel_id |-> CurChan(p),
              video_id |-> CurItem(p).id,
              link |-> CurItem(p).link,
              summary |-> "",
              transcript |-> loc[p].transcript,
              video_type |-> videoType(CurItem(p)),
              notified |-> loc[p].notified]}
     ELSE UNCHANGED videos
  /\ AfterItem(p)
  /\ loc' = [loc EXCEPT ![p] = NoRow]
  /\ UNCHANGED <<envToken, channels, last_checked, user_settings, feedLen,
                 bf, cycles, cyc, chans, settingsByUserId, sent, hook, req, qa>>

-----------------------------------------------------------------------------
(* POST /api/channels (routes.ts 81-181) and backfillVideos (466-593) *)

\* lines 163-171: the channel row is inserted, then backfillVideos is called
AddChannel(c) ==
  /\ c \notin channels
  /\ channels' = channels \cup {c}
  /\ bf' = [bf EXCEPT ![c] = [pc |-> "fetch", videos |-> <<>>, len |-> 0, at |-> 0,
                              ok |-> FALSE]]
  /\ UNCHANGED <<envToken, last_checked, videos, user_settings, feedLen,
                 cycles, pollVars, sent, hook, req, qa>>

\* rows built with the column's default
BackfillNotifiedDefault == FALSE

\* `notified: true` of the rows backfillVideos builds (lines 495, 546, 575)
BackfillNotified == TRUE

\* the rows of lines 477-498 (Reddit), 524-550 (YouTube) and 556-580 (RSS);
\* `fetched` tells whether getTranscript answers
BackfillRows(c, fetched) ==
  LET items == CASE Kind(c) = "reddit" -> Feed(c)
                 [] Kind(c) = "youtube" -> Take(DedupById(Feed(c), {}), BackfillCap)
                 [] OTHER -> Take(Feed(c), BackfillCap)
  IN [i \in 1..Len(items) |->
        [channel_id |-> c,
         video_id |-> IF Kind(c) = "rss" THEN SplitPop(items[i].id) ELSE items[i].id,
         link |-> items[i].link,
         summary |-> "",
         transcript |-> IF Kind(c) = "reddit"
                        THEN <<"selftext", items[i].link>>
                        ELSE getTranscript(items[i].link, fetched),
         notified |-> BackfillNotified]]

\* lines 467-582: fetch the feed and build the rows; a failure of the Reddit
\* or RSS fetch reaches the catch of line 590, one of the YouTube scrape the
\* catch of line 552, and both leave nothing to upsert
BackfillFetch(c, ok, fetched) ==
  /\ bf[c].pc = "fetch"
  /\ IF ok /\ FeedLen(c) > 0
     THEN bf' = [bf EXCEPT ![c] = [pc |-> "upsert",
                                   videos |-> BackfillRows(c, fetched),
                                   len |-> FeedLen(c), at |-> 0, ok |-> FALSE]]
     ELSE bf' = [bf EXCEPT ![c] = [pc |-> "done", videos |-> <<>>,
                                   len |-> FeedLen(c), at |-> cycles, ok |-> ok]]
  /\ UNCHANGED <<envToken, channels, last_checked, videos, user_settings,
                 feedLen, cycles, pollVars, sent, hook, req, qa>>

\* upsert(videos, {onConflict: 'channel_id,video_id', ignoreDuplicates: true})
RECURSIVE UpsertAll(_, _)
UpsertAll(rows, vs) ==
  IF rows = <<>> THEN vs
  ELSE LET r == Head(rows)
       IN IF InsertAllowed(vs, r.channel_id, r.video_id)
          THEN UpsertAll(Tail(rows),
                 vs \cup {[id |-> RowId(vs, r.channel_id, r.video_id),
                           channel_id |-> r.channel_id,
                           video_id |-> r.video_id, link |-> r.link,
                           summary |-> r.summary, transcript |-> r.transcript,
                           video_type |-> "longform",
                           notified |-> r.notified]})
          ELSE UpsertAll(Tail(rows), vs)

\* lines 584-589: the upsert; an error is logged only
BackfillUpsert(c, dbok) ==
  /\ bf[c].pc = "upsert"
  /\ IF dbok
     THEN videos' = UpsertAll(bf[c].videos, videos)
     ELSE UNCHANGED videos
  /\ bf' = [bf EXCEPT ![c].pc = "done", ![c].videos = <<>>, ![c].at = cycles,
                       ![c].ok = dbok]
  /\ UNCHANGED <<envToken, channels, last_checked, user_settings, feedLen,
                 cycles, pollVars, sent, hook, req, qa>>

-----------------------------------------------------------------------------
(* POST /api/videos/:id/summary (routes.ts 258-292) *)

\* a trigger that stores the summary and nothing else
SaveSummaryQuiet(id, summary, http) ==
  /\ summary # ""
  /\ \E v \in videos :
       /\ v.id = id
       /\ videos' = (videos \ {v}) \cup {[v EXCEPT !.summary = summary]}
  /\ UNCHANGED <<envToken, channels, last_checked, user_settings, feedLen,
                 bf, cycles, pollVars, sent, hook, req, qa>>

SaveSummary(id, summary, http) ==
  /\ summary # ""
  /\ \E v \in videos :
       /\ v.id = id
       /\ LET userSettings == user_settings[Owner(v.channel_id)]
              botToken == OrElse(envToken, Field(userSettings, "telegram_bot_token"))
              chatId == Field(userSettings, "telegram_chat_id")
              notify == userSettings # NoRow /\ chatId # "" /\ ~v.notified
                        /\ botToken # ""
              res == sendNotification(botToken, chatId, http)
          IN /\ videos' = (videos \ {v}) \cup
                   {[v EXCEPT !.summary = summary,
                              !.notified = IF notify THEN TRUE ELSE @]}
             /\ sent' = IF notify
                        THEN Record(res, "summary", v.channel_id, v.video_id, chatId)
                        ELSE sent
  /\ UNCHANGED <<envToken, channels, last_checked, user_settings, feedLen,
                 bf, cycles, pollVars, hook, req, qa>>

-----------------------------------------------------------------------------
(* saveSettingsToCloud (App.tsx 211-224): the browser writes the whole row *)

SaveSettingsToCloud(u, token, chat, key) ==
  /\ user_settings' = [user_settings EXCEPT ![u] =
        [telegram_bot_token |-> token, telegram_chat_id |-> chat,
         gemini_api_key |-> key]]
  /\ UNCHANGED <<envToken, channels, last_checked, videos, feedLen, bf,
                 cycles, pollVars, sent, hook, req, qa>>

-----------------------------------------------------------------------------
(* POST /api/webhook/telegram (routes.ts 333-463) *)

\* A text is the sequence of its words.  userText.startsWith('/start ')
StartsWithStart(t) == Len(t) >= 2 /\ t[1] = "/start"

\* userId.length > 10: account ids are UUIDs, "short" is any shorter word
LongEnough(w) == w # "short"

\* userText.trim().toLowerCase()
ToLower(t) == IF t \in {<<"total">>, <<"TOTAL">>, <<"Total">>} THEN <<"total">> ELSE t

\* the regular expression of line 368 on the parent text, which is modelled
\* as the link it carries (<<"nolink">> when it carries none)
LinkMatch(parent) == parent[1] \in {"youtube", "reddit"}

\* ilike(link, `${videoLink}%`)
IsPrefix(a, b) == Len(a) <= Len(b) /\ SubSeq(b, 1, Len(a)) = a

\* one more call of sendNotification by the handler
Send(out, token, chatId, kind, content, http) ==
  Append(out, [chat |-> chatId, kind |-> kind, content |-> content,
               called |-> sendNotification(token, chatId, http).called,
               success |-> sendNotification(token, chatId, http).success])

\* a link that keeps the chat id of a row that has one
LinkedIfEmpty(row, chatId) ==
  IF row.telegram_chat_id = "" THEN [row EXCEPT !.telegram_chat_id = chatId] ELSE row

\* line 349: update({telegram_chat_id: chatId}).eq('user_id', userId)
Linked(row, chatId) == [row EXCEPT !.telegram_chat_id = chatId]

\* lines 344-363; an account id that auth.users does not hold makes the insert
\* of line 353 fail on the foreign key
StartCommand(m, db, http) ==
  LET userId == m.text[2]
      chatId == m.chat
      userSettings == IF db /\ userId \in Users THEN user_settings[userId] ELSE NoRow
      insertError == ~db \/ userId \notin Users
  IN IF ~LongEnough(userId)
     THEN [status |-> "200", out |-> <<>>, llm |-> FALSE,
           user_settings |-> user_settings, videos |-> videos]
     ELSE IF userSettings # NoRow
     THEN [status |-> "200",
           out |-> Send(<<>>, OrElse(envToken, userSettings.telegram_bot_token),
                        chatId, "connected", <<>>, http),
           llm |-> FALSE,
           user_settings |-> [user_settings EXCEPT ![userId] = Linked(@, chatId)],
           videos |-> videos]
     ELSE IF ~insertError
     THEN [status |-> "200",
           out |-> Send(<<>>, envToken, chatId, "connected", <<>>, http),
           llm |-> FALSE,
           user_settings |-> [user_settings EXCEPT ![userId] =
               [telegram_bot_token |-> "", telegram_chat_id |-> chatId,
                gemini_api_key |-> Null]],
           videos |-> videos]
     ELSE [status |-> "200",
           out |-> Send(<<>>, envToken, chatId, "failed", <<>>, http),
           llm |-> FALSE,
           user_settings |-> user_settings, videos |-> videos]

\* lines 385-396: the item by its exact link, else by the link as a prefix
ResolveVideo(videoLink, db) ==
  LET exact == IF db THEN Single({v \in videos : v.link = videoLink}) ELSE NoRow
      fuzzy == IF db THEN Single({v \in videos : IsPrefix(videoLink, v.link)})
               ELSE NoRow
  IN IF exact # NoRow THEN exact ELSE fuzzy

\* str.includes(sub), a string being the sequence of its words
Contains(str, sub) ==
  \E i \in 0..(Len(str) - Len(sub)) : SubSeq(str, i + 1, i + Len(sub)) = sub

\* what the LLM call does: it answers, or it rejects with one of these messages
LlmOutcomes == {"ok", "429", "quota", "exhausted", "lowercase", "error"}

\* errMsg of line 445
ErrMsg(llm) ==
  CASE llm = "429" -> <<"got", "429", "Too", "Many", "Requests">>
    [] llm = "quota" -> <<"Quota", "exceeded", "for", "metric">>
    [] llm = "exhausted" -> <<"status:", "RESOURCE_EXHAUSTED">>
    [] llm = "lowercase" -> <<"quota", "exceeded">>
    [] OTHER -> <<"fetch", "failed">>

\* the condition of line 448
IsRateLimit(errMsg) ==
  \/ Contains(errMsg, <<"429">>)
  \/ Contains(errMsg, <<"Quota", "exceeded">>)
  \/ Contains(errMsg, <<"RESOURCE_EXHAUSTED">>)

\* an update that is made whatever the fetch returned
ShouldStoreAlways(transcript) == TRUE

\* `if (transcript)` (line 401)
ShouldStore(transcript) == transcript # <<>>

\* lines 366-455; `pick` is the row that limit(1) returns at line 378
ReplyBranch(m, pick, db, fetched, http, llm) ==
  LET chatId == m.chat
      quiet == [status |-> "200", out |-> <<>>, llm |-> FALSE,
                user_settings |-> user_settings, videos |-> videos]
      userSettings == IF db /\ pick # "nobody" THEN user_settings[pick] ELSE NoRow
      video == ResolveVideo(m.reply, db)
      cached == video.transcript
      transcript == IF cached # <<>> THEN cached ELSE getTranscript(video.link, fetched)
      stored == IF cached = <<>> /\ ShouldStore(transcript) /\ db
                THEN (videos \ {video}) \cup {[video EXCEPT !.transcript = transcript]}
                ELSE videos
      content == IF transcript # <<>> THEN transcript
                 ELSE IF video.summary # "" THEN <<video.summary>>
                 ELSE <<"No content available.">>
  IN IF ~LinkMatch(m.reply)
     THEN [quiet EXCEPT !.out = Send(<<>>, envToken, chatId, "nolink", <<>>, http)]
     ELSE IF userSettings = NoRow \/ Field(userSettings, "gemini_api_key") \in {"", Null}
     THEN [quiet EXCEPT !.out = Send(<<>>, envToken, chatId, "nokey", <<>>, http)]
     ELSE IF video = NoRow
     THEN [quiet EXCEPT !.out = Send(<<>>, envToken, chatId, "notfound", <<>>, http)]
     ELSE IF ToLower(m.text) = <<"total">>
     THEN [quiet EXCEPT !.videos = stored,
                        !.out = Send(<<>>, envToken, chatId, "total",
                                     IF transcript # <<>> THEN transcript
                                     ELSE <<"No content available.">>, http)]
     ELSE [quiet EXCEPT !.videos = stored,
                        !.llm = TRUE,
                        !.out = Send(<<>>, envToken, chatId,
                                     IF llm = "ok" THEN "answer"
                                     ELSE IF IsRateLimit(ErrMsg(llm)) THEN "ratelimit"
                                     ELSE "error",
                                     IF llm = "ok" THEN content ELSE <<>>, http)]

\* the rows line 378 selects from: those of the chat whose key is not null
KeyRows(chatId) ==
  {u \in Users : user_settings[u] # NoRow
                 /\ user_settings[u].telegram_chat_id = chatId
                 /\ user_settings[u].gemini_api_key # Null}

\* `message.chat.id.toString()` of line 339 stands before the `try` of line
\* 342: a payload without chat makes the handler throw, and no status is sent
ChatIdThrows(m) == m.chat = ""

\* a request arrives: its payload, and what the collaborators will do while
\* it is handled; no response is sent yet
Receive(m, e) ==
  /\ req = NoRow
  /\ req' = [m |-> m, env |-> e]
  /\ hook' = [status |-> "idle", out |-> <<>>, llm |-> FALSE]
  /\ UNCHANGED <<envToken, channels, last_checked, videos, user_settings,
                 feedLen, bf, cycles, pollVars, sent, qa>>

TelegramWebhook(m, pick, db, fetched, http, llm) ==
  /\ req = [m |-> m, env |-> [db |-> db, fetched |-> fetched, http |-> http, llm |-> llm]]
  /\ req' = NoRow
  /\ IF KeyRows(m.chat) = {} THEN pick = "nobody" ELSE pick \in KeyRows(m.chat)
  /\ LET r == IF ~m.message \/ m.text = <<>>
              THEN [status |-> "200", out |-> <<>>, llm |-> FALSE,
                    user_settings |-> user_settings, videos |-> videos]
              ELSE IF ChatIdThrows(m)
              THEN [status |-> "none", out |-> <<>>, llm |-> FALSE,
                    user_settings |-> user_settings, videos |-> videos]
              ELSE IF StartsWithStart(m.text)
              THEN StartCommand(m, db, http)
              ELSE IF m.reply # <<>>
              THEN ReplyBranch(m, pick, db, fetched, http, llm)
              ELSE [status |-> "200", out |-> <<>>, llm |-> FALSE,
                    user_settings |-> user_settings, videos |-> videos]
     IN /\ hook' = [status |-> r.status, out |-> r.out, llm |-> r.llm]
        /\ user_settings' = r.user_settings
        /\ videos' = r.videos
  /\ UNCHANGED <<envToken, channels, last_checked, feedLen, bf, cycles,
                 pollVars, sent, qa>>

\* The transcript backfill of the reply branch step by step, one step per
\* await, for handlers that overlap.  The reply that follows (lines 406-455)
\* reads the local transcript and writes nothing to the store.

\* lines 369-398: the checks, the lookup of the item, `video.transcript || ""`
QaRead(h, m, db) ==
  /\ qa[h].pc \in {"idle", "done"}
  /\ LinkMatch(m.reply)
  /\ \E u \in KeyRows(m.chat) : user_settings[u].gemini_api_key # ""
  /\ LET video == ResolveVideo(m.reply, db)
     IN qa' = [qa EXCEPT ![h] =
                 [pc |-> IF video = NoRow THEN "done"
                         ELSE IF video.transcript # <<>> THEN "done" ELSE "fetch",
                  video |-> video,
                  transcript |-> IF video = NoRow THEN <<>> ELSE video.transcript,
                  wrote |-> FALSE]]
  /\ UNCHANGED <<envToken, channels, last_checked, videos, user_settings,
                 feedLen, bf, cycles, pollVars, sent, hook, req>>

\* lines 399-401: `transcript = await getTranscript(video.link)`
QaFetch(h, fetched) ==
  /\ qa[h].pc = "fetch"
  /\ LET transcript == getTranscript(qa[h].video.link, fetched)
     IN qa' = [qa EXCEPT ![h].transcript = transcript,
                         ![h].pc = IF ShouldStore(transcript) THEN "update"
                                   ELSE "done"]
  /\ UNCHANGED <<envToken, channels, last_checked, videos, user_settings,
                 feedLen, bf, cycles, pollVars, sent, hook, req>>

\* an update that writes back the whole row the handler read
WriteBackRow(v, read, transcript) == [read EXCEPT !.transcript = transcript]

\* update({ transcript }): the one column of the row as it is now
UpdateTranscript(v, read, transcript) == [v EXCEPT !.transcript = transcript]

\* line 402: update({ transcript }).eq('id', video.id); the result is not read
QaUpdate(h, dbok) ==
  /\ qa[h].pc = "update"
  /\ videos' = IF dbok
               THEN {IF v.id = qa[h].video.id
                     THEN UpdateTranscript(v, qa[h].video, qa[h].transcript) ELSE v :
                     v \in videos}
               ELSE videos
  /\ qa' = [qa EXCEPT ![h].pc = "done", ![h].wrote = dbok]
  /\ UNCHANGED <<envToken, channels, last_checked, user_settings,
                 feedLen, bf, cycles, pollVars, sent, hook, req>>

-----------------------------------------------------------------------------
(* Specifications *)

ChatOf(u) == IF u = "u1" THEN "chat1" ELSE "chat2"

RowIds == {v.id : v \in videos}

\* Sequential poll cycles (the cron tick alone) over the YouTube channel,
\* while its owner edits the messaging settings and saves summaries.
Next ==
  \/ Publish(2)
  \/ \E t \in {"", "usertok"}, ch \in {"", "chat1"} : SaveSettings("u1", t, ch)
  \/ AddChannel(2)
  \/ \E ok \in BOOLEAN : BackfillFetch(2, ok, TRUE)
  \/ \E dbok \in BOOLEAN : BackfillUpsert(2, dbok)
  \/ \E ok \in BOOLEAN : PollStart("cron", ok)
  \/ PollSettings("cron")
  \/ \E ok \in BOOLEAN : PollFetch("cron", ok)
  \/ PollTouch("cron")
  \/ PollLookup("cron", TRUE)
  \/ \E http \in HttpOutcomes : PollNotify("cron", http)
  \/ \E dbok \in BOOLEAN : PollInsert("cron", dbok)
  \/ \E id \in RowIds, http \in HttpOutcomes : SaveSummary(id, "sum", http)

Spec == Init /\ [][Next]_vars

\* The cron tick and POST /api/refresh overlapping on the subreddit.
RaceNext ==
  \/ Publish(3)
  \/ SaveSettings("u2", "usertok", "chat2")
  \/ AddChannel(3)
  \/ \E ok \in BOOLEAN : BackfillFetch(3, ok, TRUE)
  \/ \E dbok \in BOOLEAN : BackfillUpsert(3, dbok)
  \/ \E p \in Procs, ok \in BOOLEAN : PollStart(p, ok)
  \/ \E p \in Procs : PollSettings(p)
  \/ \E p \in Procs, ok \in BOOLEAN : PollFetch(p, ok)
  \/ \E p \in Procs : PollTouch(p)
  \/ \E p \in Procs : PollLookup(p, TRUE)
  \/ \E p \in Procs, http \in HttpOutcomes : PollNotify(p, http)
  \/ \E p \in Procs, dbok \in BOOLEAN : PollInsert(p, dbok)

RaceSpec == Init /\ [][RaceNext]_vars

\* The generic feed is registered and backfilled, then polled on request.
RegisterNext ==
  \/ Publish(1)
  \/ SaveSettings("u1", "usertok", "chat1")
  \/ AddChannel(1)
  \/ \E ok \in BOOLEAN, fetched \in BOOLEAN : BackfillFetch(1, ok, fetched)
  \/ \E dbok \in BOOLEAN : BackfillUpsert(1, dbok)
  \/ \E ok \in BOOLEAN : PollStart("manual", ok)
  \/ PollSettings("manual")
  \/ \E ok \in BOOLEAN : PollFetch("manual", ok)
  \/ PollTouch("manual")
  \/ \E fetched \in BOOLEAN : PollLookup("manual", fetched)
  \/ \E http \in HttpOutcomes : PollNotify("manual", http)
  \/ \E dbok \in BOOLEAN : PollInsert("manual", dbok)

RegisterSpec == Init /\ [][RegisterNext]_vars

\* The generic feed grows while one cycle after another polls it; the store
\* accepts every insert.
GrowNext ==
  \/ PublishUpTo(1, MaxGrow)
  \/ SaveSettings("u1", "usertok", "chat1")
  \/ AddChannel(1)
  \/ \E ok \in BOOLEAN : PollStart("cron", ok)
  \/ PollSettings("cron")
  \/ \E ok \in BOOLEAN : PollFetch("cron", ok)
  \/ PollTouch("cron")
  \/ \E fetched \in BOOLEAN : PollLookup("cron", fetched)
  \/ \E http \in HttpOutcomes : PollNotify("cron", http)
  \/ PollInsert("cron", TRUE)

GrowSpec == Init /\ [][GrowNext]_vars

\* One poll cycle after another over a list of two channels: the generic
\* feed, whose fetch can throw, and the subreddit.  The backfills of the two
\* channels are still pending.
ListNext ==
  \/ \E c \in {1, 3} : Publish(c)
  \/ \E c \in {1, 3} : AddChannel(c)
  \/ \E ok \in BOOLEAN : PollStart("cron", ok)
  \/ PollSettings("cron")
  \/ \E ok \in BOOLEAN : PollFetch("cron", ok)
  \/ PollTouch("cron")
  \/ \E fetched \in BOOLEAN : PollLookup("cron", fetched)
  \/ \E http \in HttpOutcomes : PollNotify("cron", http)
  \/ \E dbok \in BOOLEAN : PollInsert("cron", dbok)

ListSpec == Init /\ [][ListNext]_vars

\* Registration of channels of the three source kinds, with no poll cycle.
BackfillNext ==
  \/ \E c \in Chans : Publish(c)
  \/ \E c \in Chans : AddChannel(c)
  \/ \E c \in Chans, ok \in BOOLEAN, fetched \in BOOLEAN : BackfillFetch(c, ok, fetched)
  \/ \E c \in Chans, dbok \in BOOLEAN : BackfillUpsert(c, dbok)

BackfillSpec == Init /\ [][BackfillNext]_vars

\* Registration of channels whose feeds already hold many entries.
CapNext ==
  \/ \E c \in {1, 2, 3} : PublishUpTo(c, MaxBurst)
  \/ \E c \in {1, 2, 3} : AddChannel(c)
  \/ \E c \in {1, 2, 3} : BackfillFetch(c, TRUE, TRUE)
  \/ \E c \in {1, 2, 3} : BackfillUpsert(c, TRUE)

CapSpec == Init /\ [][CapNext]_vars

\* Inbound payloads of the messaging endpoint
Texts ==
  {<<>>, <<"/start">>, <<"/start", "u1">>, <<"/start", "short">>,
   <<"/start", "unknown-account">>, <<"total">>, <<"TOTAL">>, <<"why">>}

Replies ==
  {<<>>, <<"nolink">>, <<"youtube", 2, 1>>, <<"youtube", 2>>,
   <<"youtube", 2, 1, "&t=5">>}

Payloads ==
  {[message |-> FALSE, text |-> <<>>, chat |-> "", reply |-> <<>>]} \cup
  [message : {TRUE}, text : Texts, chat : {"", "chat1", "chat2"}, reply : Replies]

\* What the collaborators do during one handling: all answer, or one of
\* them fails, or all fail
Good == [db |-> TRUE, fetched |-> TRUE, http |-> "ok", llm |-> "ok"]

Envs ==
  {Good,
   [Good EXCEPT !.db = FALSE],
   [Good EXCEPT !.fetched = FALSE],
   [Good EXCEPT !.http = "nonok"],
   [Good EXCEPT !.llm = "quota"],
   [Good EXCEPT !.llm = "error"],
   [db |-> FALSE, fetched |-> FALSE, http |-> "throw", llm |-> "error"]}

\* The webhook handler over the items of the YouTube channel.
WebhookNext ==
  \/ Publish(2)
  \/ AddChannel(2)
  \/ \E ok \in BOOLEAN, fetched \in BOOLEAN : BackfillFetch(2, ok, fetched)
  \/ \E dbok \in BOOLEAN : BackfillUpsert(2, dbok)
  \/ \E u \in Users, key \in {"", "key"} :
       SaveSettingsToCloud(u, "", ChatOf(u), key)
  \/ \E m \in Payloads, e \in Envs : Receive(m, e)
  \/ /\ req # NoRow
     /\ \E pick \in Users \cup {"nobody"} :
          TelegramWebhook(req.m, pick, req.env.db, req.env.fetched,
                          req.env.http, req.env.llm)

WebhookSpec == Init /\ [][WebhookNext]_vars

ReplyEnvs == Envs \cup {[Good EXCEPT !.llm = l] : l \in LlmOutcomes}

\* Replies to a notification of the YouTube channel, which two accounts
\* follow; the replying chat is the one of account u1.
ReplyPayloads ==
  [message : {TRUE}, text : {<<"total">>, <<"TOTAL">>, <<"why">>}, chat : {"chat1"},
   reply : {<<"nolink">>, <<"youtube", 2, 1>>, <<"youtube", 2>>,
            <<"youtube", 2, 1, "&t=5">>}]

ReplyNext ==
  \/ Publish(2)
  \/ \E c \in {2, 4} : AddChannel(c)
  \/ \E c \in {2, 4}, fetched \in BOOLEAN : BackfillFetch(c, TRUE, fetched)
  \/ \E c \in {2, 4} : BackfillUpsert(c, TRUE)
  \/ \E key \in {"", "key"} : SaveSettingsToCloud("u1", "usertok", "chat1", key)
  \/ \E m \in ReplyPayloads, e \in ReplyEnvs : Receive(m, e)
  \/ /\ req # NoRow
     /\ \E pick \in Users \cup {"nobody"} :
          TelegramWebhook(req.m, pick, req.env.db, req.env.fetched,
                          req.env.http, req.env.llm)

ReplySpec == Init /\ [][ReplyNext]_vars

\* The /start command, from two chats, for accounts with and without a row.
StartPayloads ==
  [message : {TRUE},
   text : {<<"/start", "u1">>, <<"/start", "u2">>, <<"/start", "short">>,
           <<"/start", "unknown-account">>},
   chat : {"chat1", "chat2"}, reply : {<<>>}]

StartEnvs == {Good, [Good EXCEPT !.db = FALSE], [Good EXCEPT !.http = "nonok"]}

StartNext ==
  \/ \E t \in {"", "usertok"} : SaveSettings("u1", t, "")
  \/ \E key \in {"", "key"} : SaveSettingsToCloud("u2", "", "chat1", key)
  \/ \E m \in StartPayloads, e \in StartEnvs : Receive(m, e)
  \/ /\ req # NoRow
     /\ \E pick \in Users \cup {"nobody"} :
          TelegramWebhook(req.m, pick, req.env.db, req.env.fetched,
                          req.env.http, req.env.llm)

StartSpec == Init /\ [][StartNext]_vars

\* Items of the YouTube channel whose captions are not available when the
\* cycle stores them; later their owner replies to them and saves summaries.
FillPayloads ==
  [message : {TRUE}, text : {<<"total">>, <<"why">>}, chat : {"chat1"},
   reply : {<<"youtube", 2, 1>>}]

FillEnvs == {Good, [Good EXCEPT !.fetched = FALSE], [Good EXCEPT !.db = FALSE]}

FillNext ==
  \/ Publish(2)
  \/ \E t \in {"", "usertok"} : SaveSettingsToCloud("u1", t, "chat1", "key")
  \/ AddChannel(2)
  \/ PollStart("cron", TRUE)
  \/ PollSettings("cron")
  \/ PollFetch("cron", TRUE)
  \/ PollTouch("cron")
  \/ PollLookup("cron", FALSE)
  \/ \E http \in HttpOutcomes : PollNotify("cron", http)
  \/ PollInsert("cron", TRUE)
  \/ \E id \in RowIds, s \in {"sum", "sum2"}, http \in HttpOutcomes :
       SaveSummary(id, s, http)
  \/ \E m \in FillPayloads, e \in FillEnvs : Receive(m, e)
  \/ /\ req # NoRow
     /\ \E pick \in Users \cup {"nobody"} :
          TelegramWebhook(req.m, pick, req.env.db, req.env.fetched,
                          req.env.http, req.env.llm)

FillSpec == Init /\ [][FillNext]_vars

\* Two reply handlers and the cron tick at the same time, over the items of
\* the YouTube channel.
OverlapPayloads ==
  [message : {TRUE}, text : {<<"why">>}, chat : {"chat1"},
   reply : {<<"youtube", 2, k>> : k \in 1..MaxFeed}]

OverlapNext ==
  \/ Publish(2)
  \/ SaveSettingsToCloud("u1", "usertok", "chat1", "key")
  \/ AddChannel(2)
  \/ PollStart("cron", TRUE)
  \/ PollSettings("cron")
  \/ PollFetch("cron", TRUE)
  \/ PollTouch("cron")
  \/ \E fetched \in BOOLEAN : PollLookup("cron", fetched)
  \/ PollNotify("cron", "ok")
  \/ PollInsert("cron", TRUE)
  \/ \E h \in Handlers, m \in OverlapPayloads : QaRead(h, m, TRUE)
  \/ \E h \in Handlers, fetched \in BOOLEAN : QaFetch(h, fetched)
  \/ \E h \in Handlers, dbok \in BOOLEAN : QaUpdate(h, dbok)

OverlapSpec == Init /\ [][OverlapNext]_vars

\* Every writer of the items store at work on the items of the YouTube
\* channel: the poll cycle, the backfill, the save-summary route and the
\* reply handler step by step.
MonoNext ==
  \/ Publish(2)
  \/ SaveSettingsToCloud("u1", "usertok", "chat1", "key")
  \/ AddChannel(2)
  \/ BackfillFetch(2, TRUE, FALSE)
  \/ \E dbok \in BOOLEAN : BackfillUpsert(2, dbok)
  \/ PollStart("cron", TRUE)
  \/ PollSettings("cron")
  \/ PollFetch("cron", TRUE)
  \/ PollTouch("cron")
  \/ PollLookup("cron", FALSE)
  \/ PollNotify("cron", "ok")
  \/ PollInsert("cron", TRUE)
  \/ \E id \in RowIds : SaveSummary(id, "sum", "ok")
  \/ \E m \in OverlapPayloads : QaRead("h1", m, TRUE)
  \/ \E fetched \in BOOLEAN : QaFetch("h1", fetched)
  \/ \E dbok \in BOOLEAN : QaUpdate("h1", dbok)

MonoSpec == Init /\ [][MonoNext]_vars

\* Two accounts, each with a channel of its own, edit their messaging
\* settings while the cron tick polls both channels.
OwnerNext ==
  \/ \E c \in {1, 3} : Publish(c)
  \/ \E u \in Users, ch \in {"chat1", "chat2"} : SaveSettings(u, "usertok", ch)
  \/ \E c \in {1, 3} : AddChannel(c)
  \/ PollStart("cron", TRUE)
  \/ PollSettings("cron")
  \/ \E ok \in BOOLEAN : PollFetch("cron", ok)
  \/ PollTouch("cron")
  \/ PollLookup("cron", TRUE)
  \/ \E http \in HttpOutcomes : PollNotify("cron", http)
  \/ PollInsert("cron", TRUE)

OwnerSpec == Init /\ [][OwnerNext]_vars

\* Cycles of the cron tick over a generic and a YouTube channel, with every
\* outcome of the channel select, the fetches, the dispatches and the inserts.
CycleNext ==
  \/ \E c \in {1, 2} : PublishUpTo(c, MaxItems)
  \/ SaveSettings("u1", "usertok", "chat1")
  \/ \E c \in {1, 2} : AddChannel(c)
  \/ \E ok \in BOOLEAN : PollStart("cron", ok)
  \/ PollSettings("cron")
  \/ \E ok \in BOOLEAN : PollFetch("cron", ok)
  \/ PollTouch("cron")
  \/ PollLookup("cron", TRUE)
  \/ \E http \in {"ok", "throw"} : PollNotify("cron", http)
  \/ \E dbok \in BOOLEAN : PollInsert("cron", dbok)

CycleSpec == Init /\ [][CycleNext]_vars

-----------------------------------------------------------------------------
(* Properties *)

\* a step of invocation p
Stepped(p) == <<pc[p], ci[p], idx[p]>>' # <<pc[p], ci[p], idx[p]>>

\* the HTTP calls made so far for the pair (c, vid)
Dispatches(c, vid) ==
  LET S == {e \in BagToSet(sent) : e.channel = c /\ e.video = vid}
  IN BagCardinality([e \in S |-> CopiesIn(e, sent)])

\* the token and the chat id an invocation reads for the owner of channel c
SnapToken(p, c) ==
  IF envToken # "" THEN envToken
  ELSE IF settingsByUserId[p][Owner(c)] = NoRow THEN ""
  ELSE settingsByUserId[p][Owner(c)].telegram_bot_token
SnapChat(p, c) ==
  IF settingsByUserId[p][Owner(c)] = NoRow THEN ""
  ELSE settingsByUserId[p][Owner(c)].telegram_chat_id

\* C1: in every reachable state, whatever poll cycles ran one after another
\* or overlapping, together with the backfill, the items store holds at most
\* one row for each (channel, sourceId) pair.
C1_OneRowPerPair ==
  \A r1 \in videos, r2 \in videos :
    (r1.channel_id = r2.channel_id /\ r1.video_id = r2.video_id) => r1 = r2

\* Two overlapping invocations have both handled the same new item to the
\* end (both dispatched for it), and one row is stored.
C1_SecondInsertRejected ==
  /\ \A p \in Procs : pc[p] = "done"
  /\ \E r \in videos : Dispatches(r.channel_id, r.video_id) >= 2

\* C2: a row created by a poll cycle carries notified = true only if the
\* dispatch for that item returned success; when the dispatch returned
\* success = false the row is stored with notified = false.
C2_NotifiedOnlyOnSuccess ==
  [][\A p \in Procs :
       (pc[p] = "insert" /\ Stepped(p)) =>
         \A r \in videos' \ videos : r.notified <=> loc[p].res = "ok"]_vars

\* C3: across any sequence of poll cycles, a scheduled one overlapping a
\* manually triggered one included, at most one notification is dispatched
\* for any (channel, sourceId).
C3_AtMostOneDispatch ==
  \A e \in BagToSet(sent) : Dispatches(e.channel, e.video) <= 1

\* C4: every row inserted by backfillVideos has notified = true, on the
\* Reddit, the YouTube and the generic path alike, and the backfill makes no
\* call to the messaging endpoint.
C4_BackfillSilent ==
  /\ \A r \in videos : r.notified = TRUE
  /\ sent = EmptyBag

\* The backfills of the three kinds of channel have stored rows.
C4_ThreeKindsBackfilled ==
  \A c \in Chans : bf[c].pc = "done" /\ \E r \in videos : r.channel_id = c

\* C5: after backfillVideos has run for a newly added channel, a poll cycle
\* over the same unchanged feed inserts no row and dispatches nothing for
\* that channel.
C5_BackfilledNotNew ==
  [][\A p \in Procs :
       (/\ pc[p] \in {"lookup", "notify", "insert"}
        /\ Stepped(p)
        /\ bf[CurChan(p)].pc = "done"
        /\ bf[CurChan(p)].ok
        /\ bf[CurChan(p)].at < cyc[p]
        /\ bf[CurChan(p)].len = FeedLen(CurChan(p)))
       => /\ videos' = videos
          /\ sent' = sent
          /\ pc'[p] # "notify"]_vars

\* C6: when no bot token is at hand for the owning account, or no chat id,
\* the poll cycle makes no send call for a new item, goes on without
\* throwing and stores the item with notified = false; sendNotification
\* called with an empty token or chat id returns success = false.
C6_NoEndpointNoSend ==
  [][/\ \A p \in Procs :
          (/\ pc[p] \in {"notify", "insert"}
           /\ Stepped(p)
           /\ (SnapToken(p, CurChan(p)) = "" \/ SnapChat(p, CurChan(p)) = ""))
          => /\ sent' = sent
             /\ pc[p] = "notify" => (pc'[p] = "insert" /\ loc'[p].notified = FALSE)
             /\ pc[p] = "insert" =>
                  /\ pc'[p] \in {"lookup", "fetch", "done"}
                  /\ \A r \in videos' \ videos : r.notified = FALSE
     /\ \A t \in {"", "envtok", "usertok"}, ch \in {"", "chat1"}, h \in HttpOutcomes :
          (t = "" \/ ch = "") =>
             /\ sendNotification(t, ch, h).success = FALSE
             /\ sendNotification(t, ch, h).called = FALSE]_vars

\* A cycle that read no complete endpoint has ended, its new item is stored
\* with notified = false and no call was made.
C6_StoredUnnotified ==
  /\ pc["cron"] = "done"
  /\ SnapToken("cron", 2) = "" \/ SnapChat("cron", 2) = ""
  /\ \E r \in videos : r.channel_id = 2 /\ r.notified = FALSE
  /\ sent = EmptyBag

\* C7: an item left with notified = false because no endpoint was
\* configured is attempted again: a later poll cycle, run with the owner's
\* token and chat id configured, has dispatched for it when it ends.
C7_RetriedByPoll ==
  \A p \in Procs, r \in videos :
    (/\ pc[p] = "done"
     /\ idx[p] > 1
     /\ SnapToken(p, r.channel_id) # "" /\ SnapChat(p, r.channel_id) # ""
     /\ r.notified = FALSE)
    => Dispatches(r.channel_id, r.video_id) >= 1

\* C7 as amended: a poll cycle whose lookup finds the stored item skips it
\* with no send call, also when the row has notified = false and the
\* owner's token and chat id are configured by then; saving a summary for a
\* row with notified = false, with a chat id and a token configured, makes
\* one send call and sets notified = true.
C7_SkippedByPollSentOnSummary ==
  [][/\ \A p \in Procs :
          (/\ pc[p] = "lookup"
           /\ Stepped(p)
           /\ Matching(CurChan(p), CurItem(p).id) # {})
          => /\ sent' = sent
             /\ videos' = videos
             /\ pc'[p] \in {"lookup", "fetch", "done"}
     /\ \A v \in videos : \A w \in videos' :
          (/\ w.id = v.id
           /\ w.summary # v.summary
           /\ v.notified = FALSE
           /\ user_settings[Owner(v.channel_id)] # NoRow
           /\ user_settings[Owner(v.channel_id)].telegram_chat_id # ""
           /\ (envToken # ""
               \/ user_settings[Owner(v.channel_id)].telegram_bot_token # ""))
          => /\ w.notified = TRUE
             /\ BagCardinality(sent') = BagCardinality(sent) + 1]_vars

\* A cycle run with the endpoint configured has gone through the feed and
\* ended, the item is still stored with notified = false, and no call was
\* ever made.
C7_UnnotifiedSkipped ==
  /\ pc["cron"] = "done"
  /\ idx["cron"] > 1
  /\ SnapToken("cron", 2) # "" /\ SnapChat("cron", 2) # ""
  /\ \E r \in videos : r.channel_id = 2 /\ r.notified = FALSE
  /\ sent = EmptyBag

\* C8: for every inbound payload, those with missing fields and the runs in
\* which a persistence, transcript, messaging or LLM step fails included,
\* the webhook handler answers with status 200.
C8_Always200 == hook.status \in {"idle", "200"}

\* C9: a failure of the fetch of one channel is caught and the cycle goes
\* on with the next channel of the list; it ends only when every channel of
\* the list was taken up.
C9_FailureSkipsOneChannel ==
  /\ [](\A p \in Procs : pc[p] = "done" => ci[p] = Len(chans[p]) + 1)
  /\ [][\A p \in Procs :
          (pc[p] = "fetch" /\ Stepped(p)) =>
            \/ pc'[p] = "touch" /\ ci'[p] = ci[p]
            \/ /\ ci'[p] = ci[p] + 1
               /\ pc'[p] = IF ci[p] < Len(chans[p]) THEN "fetch" ELSE "done"]_vars

\* The first cycle over two channels has ended: the fetch of the first
\* channel failed (its last_checked was not written) and the item of the
\* second channel was fetched and inserted.
C9_SecondChannelIngested ==
  /\ pc["cron"] = "done"
  /\ cyc["cron"] = 1
  /\ Len(chans["cron"]) = 2
  /\ last_checked[chans["cron"][1]] = 0
  /\ last_checked[chans["cron"][2]] = 1
  /\ \E r \in videos : r.channel_id = chans["cron"][2]

\* C10: in a poll cycle the last_checked of a channel is written after all
\* the fetched items of the channel were processed: it is not yet written
\* while an item of the channel is being processed.
C10_TouchAfterItems ==
  \A p \in Procs :
    pc[p] \in {"lookup", "notify", "insert"} => last_checked[CurChan(p)] # cyc[p]

\* C10 as amended: the last_checked of a channel is written once the feed
\* was fetched and before any fetched item of the channel is processed, and
\* it is written whether or not a new item was found, a feed of zero items
\* included.
C10_TouchBeforeItems ==
  /\ [](\A p \in Procs :
          pc[p] \in {"lookup", "notify", "insert"}
            => last_checked[CurChan(p)] = cyc[p])
  /\ [][\A p \in Procs :
          (pc[p] = "touch" /\ Stepped(p)) =>
            /\ last_checked'[CurChan(p)] = cyc[p]
            /\ videos' = videos
            /\ sent' = sent]_vars

\* The first item of the channel is being processed, nothing is stored
\* yet, and last_checked already carries the stamp of the cycle.
C10_TouchedWhileProcessing ==
  /\ pc["cron"] = "notify"
  /\ idx["cron"] = 1
  /\ videos = {}
  /\ last_checked[CurChan("cron")] = cyc["cron"]

C12_SendNeverThrows ==
  /\ [](\A t \in {"", envToken, "usertok"}, ch \in {"", "chat1"}, h \in HttpOutcomes :
          LET r == sendNotification(t, ch, h)
          IN /\ r.called <=> (t # "" /\ ch # "")
             /\ r.success <=> (t # "" /\ ch # "" /\ h = "ok")
             /\ (t # "" /\ ch # "" /\ h = "ok") => r.error = ""
             /\ (t # "" /\ ch # "" /\ h = "nonok") => r.error = "body"
             /\ (t # "" /\ ch # "" /\ h = "throw") => r.error = "message"
             /\ (t = "" \/ ch = "") => r.error = "No Telegram settings configured")
  /\ [][\A p \in Procs :
          (pc[p] = "notify" /\ Stepped(p)) =>
            /\ pc'[p] = "insert"
            /\ loc'[p].res \in {"none", "ok", "fail"}
            /\ loc'[p].res = "none" <=> sent' = sent
            /\ loc'[p].res # "none" =>
                 BagCardinality(sent') = BagCardinality(sent) + 1]_vars

\* The HTTP call of a new item was made and failed, sendNotification
\* returned success = false, and the cycle is at its insert.
C12_FailedCallReturned ==
  /\ pc["cron"] = "insert"
  /\ loc["cron"].res = "fail"
  /\ Dispatches(2, CurItem("cron").id) = 1

\* C13: backfillVideos inserts at most 5 rows for a newly registered
\* channel, whatever its source kind and however many entries the feed
\* returns.
C13_BackfillAtMostFive ==
  \A c \in Chans : Cardinality({r \in videos : r.channel_id = c}) <= 5

\* the step in which the webhook handler runs on the request it received
Handled == req # NoRow /\ req' = NoRow

\* all the collaborators answer during the handling
AllAnswer(e) == e.db /\ e.fetched /\ e.http = "ok" /\ e.llm = "ok"

\* C14: for a reply whose text is `total` in any letter case and whose
\* parent link resolves to a stored item, the handler replies with the
\* stored content of that item and never invokes the LLM.
C14_TotalRepliesContent ==
  [][(/\ Handled
      /\ req.m.message
      /\ req.m.text \in {<<"total">>, <<"TOTAL">>, <<"Total">>}
      /\ req.m.chat # ""
      /\ req.m.reply # <<>>
      /\ AllAnswer(req.env)
      /\ ResolveVideo(req.m.reply, TRUE) # NoRow)
     => /\ hook'.llm = FALSE
        /\ Len(hook'.out) = 1
        /\ hook'.out[1].kind = "total"
        /\ ResolveVideo(req.m.reply, TRUE).transcript # <<>> =>
             hook'.out[1].content = ResolveVideo(req.m.reply, TRUE).transcript]_vars

\* C15: for every reply whose parent message has text, the handler sends at
\* least one message back to the replying chat: an answer, the full content
\* or a diagnostic error; the message is never dropped silently.
C15_ReplyNeverSilent ==
  [][(/\ Handled
      /\ req.m.message
      /\ req.m.text # <<>>
      /\ req.m.text[1] # "/start"
      /\ req.m.chat # ""
      /\ req.m.reply # <<>>)
     => \E i \in 1..Len(hook'.out) :
          hook'.out[i].called /\ hook'.out[i].chat = req.m.chat]_vars

\* C16: the extracted link resolves to a stored item whenever the link of at
\* least one item equals it; an item whose link starts with it is used only
\* when none equals it; `not found` is reported only when there is no match
\* of either kind.
C16_ExactThenPrefix ==
  [][(/\ Handled
      /\ req.m.message
      /\ req.m.text # <<>>
      /\ req.m.text[1] # "/start"
      /\ req.m.chat # ""
      /\ req.m.reply # <<>>
      /\ AllAnswer(req.env)
      /\ Len(hook'.out) = 1
      /\ hook'.out[1].kind \notin {"nolink", "nokey"})
     => LET exact == {v \in videos : v.link = req.m.reply}
            prefix == {v \in videos :
                         /\ Len(req.m.reply) <= Len(v.link)
                         /\ SubSeq(v.link, 1, Len(req.m.reply)) = req.m.reply}
            video == ResolveVideo(req.m.reply, TRUE)
        IN /\ exact # {} => (video \in exact /\ hook'.out[1].kind # "notfound")
           /\ (exact = {} /\ prefix # {}) =>
                (video \in prefix /\ hook'.out[1].kind # "notfound")
           /\ hook'.out[1].kind = "notfound" => (exact = {} /\ prefix = {})]_vars

\* C17: when the LLM call fails during a reply, the handler still sends a
\* reply: the fixed rate-limit message if the error message contains `429`,
\* `Quota exceeded` or `RESOURCE_EXHAUSTED`, the generic error message
\* otherwise.
C17_LlmFailureAnswered ==
  [][(/\ Handled
      /\ hook'.llm
      /\ req.env.llm # "ok")
     => /\ Len(hook'.out) = 1
        /\ hook'.out[1].called
        /\ hook'.out[1].chat = req.m.chat
        /\ hook'.out[1].kind =
             IF req.env.llm \in {"429", "quota", "exhausted"} THEN "ratelimit"
             ELSE "error"]_vars

\* C18: after `/start <account>` from chat C is handled, the account has one
\* settings row, whose chat id is C, whether or not it had a row before, and
\* a confirmation is attempted; handling the same command again leaves the
\* same settings.
C18_StartLinksChat ==
  [][(/\ Handled
      /\ req.m.message
      /\ Len(req.m.text) = 2
      /\ req.m.text[1] = "/start"
      /\ req.m.text[2] \in Users
      /\ req.m.chat # ""
      /\ req.env.db)
     => /\ user_settings'[req.m.text[2]] # NoRow
        /\ user_settings'[req.m.text[2]].telegram_chat_id = req.m.chat
        /\ \A u \in Users \ {req.m.text[2]} : user_settings'[u] = user_settings[u]
        /\ user_settings[req.m.text[2]] # NoRow =>
             user_settings' = [user_settings EXCEPT
                                 ![req.m.text[2]].telegram_chat_id = req.m.chat]
        /\ Len(hook'.out) = 1
        /\ hook'.out[1].kind = "connected"
        /\ hook'.out[1].chat = req.m.chat
        /\ hook'.status = "200"
        /\ \A m \in StartPayloads, h \in HttpOutcomes :
             (m = req.m /\ h = req.env.http) =>
               /\ (StartCommand(m, TRUE, h).user_settings)' = user_settings'
               /\ (StartCommand(m, TRUE, h).out)' = hook'.out]_vars

\* An account whose row held another chat id and a key is linked to the
\* chat the command came from, and the confirmation went out.
C18_RelinkedExistingRow ==
  /\ req = NoRow
  /\ hook.status = "200"
  /\ Len(hook.out) = 1
  /\ hook.out[1].kind = "connected"
  /\ hook.out[1].chat = "chat2"
  /\ user_settings["u2"] # NoRow
  /\ user_settings["u2"].gemini_api_key = "key"
  /\ user_settings["u2"].telegram_chat_id = "chat2"

\* C19: every row a poll cycle inserts has video_type `short` exactly when
\* the title of its entry contains `#shorts` in that letter case or the
\* snippet of its entry, lowercased, contains `short`; `longform` otherwise.
C19_ShortExactly ==
  [][\A p \in Procs :
       (Stepped(p) /\ pc[p] = "insert") =>
         LET title == CurItem(p).title
             snippet == ToLowerCase(CurItem(p).contentSnippet)
             inTitle == \E i \in 1..Len(title) :
                          /\ i + 6 <= Len(title)
                          /\ SubSeq(title, i, i + 6) = <<"#", "s", "h", "o", "r", "t", "s">>
             inSnippet == \E i \in 1..Len(snippet) :
                            /\ i + 4 <= Len(snippet)
                            /\ SubSeq(snippet, i, i + 4) = <<"s", "h", "o", "r", "t">>
         IN /\ videos' # videos
            /\ \A r \in videos' \ videos :
                 /\ r.video_id = CurItem(p).id
                 /\ r.video_type = IF inTitle \/ inSnippet THEN "short" ELSE "longform"]_vars

\* The four entries are stored: `my #shorts` and the one whose snippet is
\* `A Shortly` as short, `#SHORTS` with snippet `show` and `shorts` with no
\* snippet as longform.
C19_FourKindsStored ==
  /\ \E r \in videos : r.link = RawLink(1, 1) /\ r.video_type = "short"
  /\ \E r \in videos : r.link = RawLink(1, 2) /\ r.video_type = "short"
  /\ \E r \in videos : r.link = RawLink(1, 3) /\ r.video_type = "longform"
  /\ \E r \in videos : r.link = RawLink(1, 4) /\ r.video_type = "longform"

\* C20: a failed transcript fetch for a new item yields empty content and
\* stops neither the insert of the item nor the dispatch of its notification
\* in the same cycle: the lookup of a new item goes on to the dispatch with
\* the captions or the empty string, and an item whose content is empty is
\* dispatched (when a token and a chat id are at hand) and inserted with
\* empty content by the next two steps.
C20_TranscriptFailureHarmless ==
  [][\A p \in Procs :
       Stepped(p) =>
         LET c == CurChan(p)
             item == CurItem(p)
             rows == {r \in videos : r.channel_id = c /\ r.video_id = item.id}
         IN /\ (pc[p] = "lookup" /\ rows = {} /\ ~LinkIncludesReddit(item.link)) =>
                 /\ pc'[p] = "notify"
                 /\ cyc'[p] = cyc[p]
                 /\ loc'[p].transcript \in {<<>>, <<"captions", item.link>>}
            /\ (pc[p] = "notify" /\ loc[p].transcript = <<>>) =>
                 /\ pc'[p] = "insert"
                 /\ cyc'[p] = cyc[p]
                 /\ loc'[p].transcript = <<>>
                 /\ (SnapToken(p, c) # "" /\ SnapChat(p, c) # "") =>
                      /\ loc'[p].notified
                      /\ BagCardinality(sent') = BagCardinality(sent) + 1
                      /\ \E e \in BagToSet(sent') :
                           /\ e.channel = c
                           /\ e.video = item.id
                           /\ CopiesIn(e, sent') = CopiesIn(e, sent) + 1
            /\ (pc[p] = "insert" /\ loc[p].transcript = <<>>) =>
                 /\ cyc'[p] = cyc[p]
                 /\ \E r \in videos' \ videos :
                      /\ r.channel_id = c
                      /\ r.video_id = item.id
                      /\ r.transcript = <<>>
                      /\ r.notified = loc[p].notified]_vars

\* An entry whose captions could not be fetched is stored with empty
\* content, marked notified, and its one HTTP call was made.
C20_StoredWithoutTranscript ==
  \E r \in videos :
    /\ r.channel_id = 1
    /\ r.transcript = <<>>
    /\ r.notified
    /\ Dispatches(1, r.video_id) = 1

\* C21: a step that stores an item's content (the reply handler saving the
\* transcript it fetched) or its summary (the save-summary trigger) leaves
\* the notified flag of that item as it was.
C21_FillKeepsNotified ==
  [][\A v \in videos, w \in videos' :
       (v.id = w.id /\ (v.transcript # w.transcript \/ v.summary # w.summary)) =>
         w.notified = v.notified]_vars

\* C21 as the code has it: the reply handler storing a transcript changes
\* that column alone; the save-summary trigger leaves notified as it was
\* when the item is notified already or the owner has no chat id or no bot
\* token, and otherwise makes one send call and sets notified, whatever the
\* call returns.  notified never goes from true to false.
C21_SummaryNotifiesUnnotified ==
  [][\A v \in videos, w \in videos' :
       v.id = w.id =>
         /\ v.notified => w.notified
         /\ v.transcript # w.transcript =>
              /\ Handled
              /\ v.transcript = <<>>
              /\ w = [v EXCEPT !.transcript = w.transcript]
              /\ sent' = sent
         /\ v.summary # w.summary =>
              LET row == user_settings[Owner(v.channel_id)]
                  configured == /\ row # NoRow
                                /\ row.telegram_chat_id # ""
                                /\ (envToken # "" \/ row.telegram_bot_token # "")
              IN /\ w = [v EXCEPT !.summary = w.summary,
                                  !.notified = v.notified \/ configured]
                 /\ BagCardinality(sent') = BagCardinality(sent) +
                      (IF ~v.notified /\ configured THEN 1 ELSE 0)]_vars

\* An item stored unnotified and without captions got its transcript from
\* the reply handler, and a summary saved once its owner had an endpoint
\* sent the one notification and set the flag.
C21_FilledThenNotified ==
  \E r \in videos :
    /\ r.transcript # <<>>
    /\ r.summary = "sum2"
    /\ r.notified
    /\ sent = SetToBag({[src |-> "summary", channel |-> r.channel_id,
                         video |-> r.video_id, chat |-> "chat1"]})

\* C22: an inbound message that is neither a `/start <token>` command nor a
\* reply to a parent message with text is acknowledged with status 200 and
\* causes no write to the store, no LLM call and no outbound message.
C22_OtherMessagesOnlyAcknowledged ==
  [][(/\ Handled
      /\ ~(Len(req.m.text) >= 2 /\ req.m.text[1] = "/start")
      /\ req.m.reply = <<>>)
     => /\ hook'.status = "200"
        /\ hook'.out = <<>>
        /\ hook'.llm = FALSE
        /\ videos' = videos
        /\ user_settings' = user_settings
        /\ sent' = sent]_vars

\* C23: a poll cycle dispatches the notification of a new item only after
\* the row of that item has been inserted: every HTTP call a poll cycle made
\* is for an item that has a row.
C23_DispatchAfterInsert ==
  \A e \in BagToSet(sent) :
    e.src = "poll" =>
      \E r \in videos : r.channel_id = e.channel /\ r.video_id = e.video

\* C24: for an entry of a generic RSS/Atom feed, the sourceId the poll cycle
\* looks up and inserts and the sourceId the backfill stores are the same
\* value, the suffix after the last `:` of the entry's id: every row of the
\* generic channel carries that suffix, and the poll looks that suffix up.
C24_SameSourceId ==
  /\ \A r \in videos :
       Kind(r.channel_id) = "rss" =>
         LET id == RawId(r.channel_id, r.link[3])
         IN r.video_id = <<id[Len(id)]>>
  /\ \A p \in Procs :
       (pc[p] \in {"lookup", "notify", "insert"} /\ Kind(CurChan(p)) = "rss") =>
         LET id == RawId(CurChan(p), CurItem(p).k)
         IN CurItem(p).id = <<id[Len(id)]>>

\* C25: the backfill gives each item it inserts the content kind the
\* classification of the poll cycle gives to the same title and snippet:
\* every backfilled row has the video_type videoType computes for its entry.
C25_BackfillClassifies ==
  \A r \in videos :
    r.video_type = videoType([title |-> RawTitle(r.channel_id, r.link[3]),
                              contentSnippet |-> RawSnippet(r.channel_id, r.link[3])])

\* C26: the transcript backfill of the reply handler is safe to apply
\* twice: when two handlers of the same item with empty content interleave,
\* or one overlaps a poll cycle, the content stored in the end is the one a
\* single handler would have stored.  Step by step: a stored content is
\* never replaced by another one, the only content a handler writes is the
\* captions of the item's link, and a row holds nothing else.
C26_BackfillIdempotent ==
  /\ [](\A v \in videos : v.transcript \in {<<>>, <<"captions", v.link>>})
  /\ [][\A v \in videos :
          /\ \E w \in videos' : w.id = v.id
          /\ \A w \in videos' :
               w.id = v.id =>
                 /\ v.transcript # <<>> => w.transcript = v.transcript
                 /\ w.transcript # v.transcript =>
                      /\ w = [v EXCEPT !.transcript = <<"captions", v.link>>]
                      /\ \E h \in Handlers : qa[h].pc = "update" /\ qa'[h].wrote]_vars

\* Both handlers read the item while its content was empty, both fetched the
\* captions and both wrote them, while the cron tick was inside a cycle; the
\* row holds the captions.
C26_BothWrote ==
  /\ \A h \in Handlers :
       /\ qa[h].pc = "done"
       /\ qa[h].wrote
       /\ qa[h].video # NoRow
       /\ qa[h].video.transcript = <<>>
  /\ qa["h1"].video.id = qa["h2"].video.id
  /\ \E v \in videos : v.id = qa["h1"].video.id /\ v.transcript = <<"captions", v.link>>
  /\ pc["cron"] \in {"fetch", "touch", "lookup", "notify", "insert"}

\* C27: the notified flag of an item is monotonic: once it is true, no step
\* of a poll cycle, of the backfill, of the save-summary route or of the
\* webhook handler sets it back to false.
C27_NotifiedMonotonic ==
  [][\A v \in videos, w \in videos' :
       (w.id = v.id /\ v.notified) => w.notified]_vars

\* A handler read the item while it was unnotified, the save-summary route
\* then sent its notification and set the flag, and the handler's update of
\* the transcript left the flag set.
C27_FlagKeptByLateUpdate ==
  /\ qa["h1"].pc = "done"
  /\ qa["h1"].wrote
  /\ qa["h1"].video.notified = FALSE
  /\ \E v \in videos :
       /\ v.id = qa["h1"].video.id
       /\ v.notified
       /\ v.summary = "sum"
       /\ v.transcript # <<>>

\* C28: a notification a poll cycle dispatches for a new item of channel c
\* is sent only to the chat id stored in the messaging settings of the owner
\* of c, never to the chat of another account.
C28_SentToOwnersChat ==
  [][\A p \in Procs :
       (Stepped(p) /\ pc[p] = "notify") =>
         \A e \in BagToSet(sent') :
           CopiesIn(e, sent') > CopiesIn(e, sent) =>
             /\ e.channel = CurChan(p)
             /\ user_settings[Owner(CurChan(p))] # NoRow
             /\ e.chat = user_settings[Owner(CurChan(p))].telegram_chat_id]_vars

\* C28 as the code has it: the dispatch goes to the chat id the settings row
\* of the channel's owner held when the cycle read the settings at its
\* start; the cycle keeps what it read to its end, and reads the row of no
\* other account for the channel.
C28_SentToOwnersChatAsLoaded ==
  [][\A p \in Procs :
       Stepped(p) =>
         /\ pc[p] = "settings" => settingsByUserId'[p] = user_settings
         /\ pc[p] \notin {"idle", "done", "settings"} =>
              settingsByUserId'[p] = settingsByUserId[p]
         /\ pc[p] = "notify" =>
              \A e \in BagToSet(sent') :
                CopiesIn(e, sent') > CopiesIn(e, sent) =>
                  /\ e.channel = CurChan(p)
                  /\ settingsByUserId[p][Owner(CurChan(p))] # NoRow
                  /\ e.chat = settingsByUserId[p][Owner(CurChan(p))].telegram_chat_id
                  /\ e.chat # ""]_vars

\* The two accounts have different chats and the cycle has dispatched one
\* notification for each channel, each to the chat of the channel's owner.
C28_EachToItsOwner ==
  /\ pc["cron"] = "done"
  /\ user_settings["u1"] # NoRow /\ user_settings["u1"].telegram_chat_id = "chat1"
  /\ user_settings["u2"] # NoRow /\ user_settings["u2"].telegram_chat_id = "chat2"
  /\ sent = SetToBag({[src |-> "poll", channel |-> 1, video |-> RawId(1, 1),
                       chat |-> "chat1"],
                      [src |-> "poll", channel |-> 3, video |-> RawId(3, 1),
                       chat |-> "chat2"]})

\* C29: the reply handler discloses content only of items that belong to a
\* channel owned by the account linked to the replying chat: an answer or a
\* full content is sent only for an item whose channel's owner has the
\* replying chat as chat id.
C29_OwnItemsOnly ==
  [][(/\ Handled
      /\ req.m.message
      /\ req.m.reply # <<>>
      /\ \E i \in 1..Len(hook'.out) :
           hook'.out[i].called /\ hook'.out[i].kind \in {"total", "answer"})
     => LET video == ResolveVideo(req.m.reply, TRUE)
        IN /\ video # NoRow
           /\ user_settings[Owner(video.channel_id)] # NoRow
           /\ user_settings[Owner(video.channel_id)].telegram_chat_id = req.m.chat]_vars

\* what is left of the cycle of invocation p: the channels after the current
\* one, then the position in the current channel, then the items after the
\* current one, then the position in the current item
Rank(p) ==
  LET perChannel == 4 * (Len(ItemNames) + 2)
      left == Len(feedItems[p]) - idx[p]
  IN CASE pc[p] \in {"idle", "done"} -> 0
       [] pc[p] = "settings" -> perChannel * (Len(chans[p]) + 1)
       [] pc[p] = "fetch" -> perChannel * (Len(chans[p]) - ci[p]) + perChannel - 1
       [] pc[p] = "touch" -> perChannel * (Len(chans[p]) - ci[p]) + perChannel - 2
       [] pc[p] = "lookup" -> perChannel * (Len(chans[p]) - ci[p]) + 4 * left + 3
       [] pc[p] = "notify" -> perChannel * (Len(chans[p]) - ci[p]) + 4 * left + 2
       [] pc[p] = "insert" -> perChannel * (Len(chans[p]) - ci[p]) + 4 * left + 1

\* C30: a poll cycle over finitely many channels with finite item lists
\* terminates when every external call returns or fails, each channel being
\* visited once and each fetched item examined once, whatever fails: every
\* step of a cycle makes what is left of it smaller, the loops only move
\* forward, and a channel is fetched and an item looked up at a position
\* that is inside the lists.
C30_CycleTerminates ==
  [][\A p \in Procs :
       (Stepped(p) /\ pc[p] \notin {"idle", "done"}) =>
         /\ Rank(p)' < Rank(p)
         /\ Rank(p)' >= 0
         /\ chans'[p] = chans[p]
         /\ ci'[p] \in {ci[p], ci[p] + 1}
         /\ ci'[p] = ci[p] => (pc[p] = "fetch" \/ idx'[p] \in {idx[p], idx[p] + 1})
         /\ pc[p] \in {"fetch", "touch", "lookup", "notify", "insert"} =>
              ci[p] \in 1..Len(chans[p])
         /\ pc[p] \in {"lookup", "notify", "insert"} =>
              idx[p] \in 1..Len(feedItems[p])
         /\ (pc[p] = "fetch" /\ pc'[p] = "fetch") => ci'[p] = ci[p] + 1
         /\ (pc[p] = "lookup" /\ pc'[p] = "lookup") =>
              (ci'[p] = ci[p] /\ idx'[p] = idx[p] + 1)]_vars

\* The second cycle has ended after two channels: the fetch of one of them
\* failed, so that its last_checked is older, the other one was polled, and
\* a channel has two rows.
C30_EndedAfterFailures ==
  /\ pc["cron"] = "done"
  /\ cyc["cron"] = 2
  /\ Len(chans["cron"]) = 2
  /\ ci["cron"] = 3
  /\ \E c \in {1, 2} : last_checked[c] < 2
  /\ \E c \in {1, 2} : last_checked[c] = 2
  /\ \E c \in {1, 2} : Cardinality({r \in videos : r.channel_id = c}) = 2

====
